---- MODULE Spec2Model ----
(***************************************************************************)
(* A model of the sparse buffer reader of sparsebuffer.c: one SBReader     *)
(* (cursor, logical size, ordered list of loaded ranges) and the public    *)
(* operations on it.  The doubly linked Range list is a sequence of        *)
(* records [pos, size, data]; a Range pointer is an index into it.         *)
(* size_t arithmetic is arithmetic modulo 2^WordBits.                      *)
(***************************************************************************)
EXTENDS Integers, Sequences, FiniteSets, TLC

(* ------------------------------ bounds -------------------------------- *)

\* Width of size_t in the model: all size_t sums and differences wrap here.
WordBits == 4
\* Largest logical size a reader is created with or resized to.
MaxSize == 3
\* Longest payload handed to sb_load_range.
MaxLen == 2
\* Largest "low" position handed to sb_load_range.
MaxPos == 2
\* Longest range list the loads at the top of the address space build.
MaxRanges == 2
MaxAvail == 4

Word == 2 ^ WordBits
SizeMax == Word - 1

\* size_t wrap-around.
W(x) == x % Word

\* Payload bytes the callers load (two distinct non-zero values, so that the
\* origin of every byte read back can be told from zero fill).
Bytes == {1, 2}
\* Content of memory that was allocated, or supplied by the caller, and never
\* written.
Junk == 0 - 1

Min(a, b) == IF a < b THEN a ELSE b

(* --------------------------- libc helpers ------------------------------ *)

\* malloc(n): n bytes of unwritten memory.
malloc(n) == [i \in 1..n |-> Junk]

\* memcpy(dst + doff, src + soff, n): only the n bytes are written.
memcpy(dst, doff, src, soff, n) ==
    [i \in 1..Len(dst) |->
        IF doff < i /\ i <= doff + n THEN src[soff + (i - doff)] ELSE dst[i]]

\* memset(dst + doff, 0, n).
memset0(dst, doff, n) ==
    [i \in 1..Len(dst) |-> IF doff < i /\ i <= doff + n THEN 0 ELSE dst[i]]

\* realloc(data, n) for n <= the old size: the first n bytes are kept.
realloc(data, n) == SubSeq(data, 1, n)

(* ------------------------- range list helpers -------------------------- *)

Range(p, s, d) == [pos |-> p, size |-> s, data |-> d]

\* Index of the first range of the list whose pos is p (the for loops of
\* range_remove, range_insert_before and range_insert_after); 0 if none.
FindPos(ranges, p) ==
    IF \E i \in 1..Len(ranges) : ranges[i].pos = p
    THEN CHOOSE i \in 1..Len(ranges) :
            /\ ranges[i].pos = p
            /\ \A j \in 1..(i - 1) : ranges[j].pos # p
    ELSE 0

RemoveAt(s, i) == SubSeq(s, 1, i - 1) \o SubSeq(s, i + 1, Len(s))
InsertAt(s, i, e) == SubSeq(s, 1, i - 1) \o <<e>> \o SubSeq(s, i, Len(s))

range_free(ranges) == << >>

range_remove(ranges, p) == RemoveAt(ranges, FindPos(ranges, p))

range_insert_before(ranges, e, p) == InsertAt(ranges, FindPos(ranges, p), e)

range_insert_after(ranges, e, p) == InsertAt(ranges, FindPos(ranges, p) + 1, e)

range_insert_end(ranges, e) == Append(ranges, e)

intersects(a, b) ==
    ~(W(a.pos + a.size) < b.pos \/ W(b.pos + b.size) < a.pos)

contains(a, b) ==
    a.pos <= b.pos /\ W(a.pos + a.size) >= W(b.pos + b.size)

\* merge(reader, a, b, &ret, &merged) with an allocator that succeeds.
merge(a, b) ==
    IF ~intersects(a, b) THEN [merged |-> FALSE, r |-> a]
    ELSE IF contains(a, b)
    THEN [merged |-> TRUE,
          r |-> Range(a.pos, a.size, memcpy(malloc(a.size), 0, a.data, 0, a.size))]
    ELSE IF contains(b, a)
    THEN [merged |-> TRUE,
          r |-> Range(b.pos, b.size, memcpy(malloc(b.size), 0, b.data, 0, b.size))]
    ELSE LET first   == IF a.pos <= b.pos THEN a ELSE b
             second  == IF a.pos <= b.pos THEN b ELSE a
             newsize == W(W(second.pos + second.size) - first.pos)
             skip    == W(W(first.pos + first.size) - second.pos)
             buf     == IF a.pos <= b.pos
                        THEN memcpy(memcpy(malloc(newsize), 0, first.data, 0, first.size),
                                    first.size, second.data, skip, W(second.size - skip))
                        ELSE memcpy(memcpy(malloc(newsize), 0, first.data, 0,
                                           W(second.pos - first.pos)),
                                    W(second.pos - first.pos), second.data, 0, second.size)
         IN [merged |-> TRUE, r |-> Range(first.pos, newsize, buf)]

(* --------------------------- the public API ---------------------------- *)

\* enum SBWhence.
SB_SET == 0
SB_CUR == 1
SB_END == 2

\* The null pointer sb_new_reader returns instead of a reader.
NULL == [null |-> TRUE]

\* sb_new_reader(size) with an allocator that has memory.
sb_new_reader(sz) ==
    IF sz = 0 THEN NULL ELSE [pos |-> 0, size |-> sz, ranges |-> << >>]

\* An sb_clear that releases the first range only.
\* sb_free_reader(): the ranges are released if there are any, then the
\* reader itself, and the caller's pointer is set to NULL.
sb_free_reader(reader) ==
    LET released == IF reader.ranges # << >>
                    THEN [reader EXCEPT !.ranges = range_free(reader.ranges)]
                    ELSE reader
    IN  NULL

sb_clear_head_only(reader) ==
    [reader EXCEPT !.ranges = IF @ = << >> THEN @ ELSE Tail(@)]

sb_clear(reader) == [reader EXCEPT !.ranges = range_free(reader.ranges)]

sb_bytes_left(reader) == W(reader.size - reader.pos)

sb_size(reader) == reader.size

\* The first loop of sb_load_range: index of the first range that merge()
\* merges with r, or 0.
FirstMerged(ranges, r) ==
    IF \E i \in 1..Len(ranges) : merge(r, ranges[i]).merged
    THEN CHOOSE i \in 1..Len(ranges) :
            /\ merge(r, ranges[i]).merged
            /\ \A j \in 1..(i - 1) : ~merge(r, ranges[j]).merged
    ELSE 0

\* The while (mergeagain) loop of sb_load_range: mrange (index m) is merged
\* with its successor for as long as merge() merges them.  The result is
\* [ranges, ub]; ub tells that range_remove() released mrange itself, which
\* the loop then goes on using.
RECURSIVE MergeFurther(_, _)
MergeFurther(ranges, m) ==
    IF m + 1 > Len(ranges) THEN [ranges |-> ranges, ub |-> FALSE]
    ELSE LET e    == ranges[m + 1]
             mr   == merge(ranges[m], e)
             upd  == [ranges EXCEPT ![m] = mr.r]
             gone == FindPos(upd, e.pos)
         IN  IF ~mr.merged THEN [ranges |-> ranges, ub |-> FALSE]
             ELSE IF gone = m THEN [ranges |-> range_remove(upd, e.pos), ub |-> TRUE]
             ELSE MergeFurther(range_remove(upd, e.pos),
                               IF gone < m THEN m - 1 ELSE m)

\* The "just insert it as-is" branch of sb_load_range.
InsertSorted(ranges, r) ==
    IF \E i \in 1..Len(ranges) : r.pos < ranges[i].pos
    THEN LET e == CHOOSE i \in 1..Len(ranges) :
                     /\ r.pos < ranges[i].pos
                     /\ \A j \in 1..(i - 1) : ~(r.pos < ranges[j].pos)
         IN  range_insert_before(ranges, r, ranges[e].pos)
    ELSE range_insert_end(ranges, r)

\* sb_load_range(reader, pos, buf, bufsize): [ret, reader, ub].
sb_load_range(reader, p, buf) ==
    LET bufsize == Len(buf)
        r       == Range(p, bufsize, memcpy(malloc(bufsize), 0, buf, 0, bufsize))
        m       == FirstMerged(reader.ranges, r)
        chained == MergeFurther([reader.ranges EXCEPT ![m] = merge(r, reader.ranges[m]).r], m)
    IN  IF bufsize = 0 THEN [ret |-> 0 - 1, reader |-> reader, ub |-> FALSE]
        ELSE IF W(reader.pos + bufsize) > reader.size
        THEN [ret |-> 0 - 1, reader |-> reader, ub |-> FALSE]
        ELSE IF reader.ranges = << >>
        THEN [ret |-> 0, reader |-> [reader EXCEPT !.ranges = <<r>>], ub |-> FALSE]
        ELSE IF m # 0
        THEN [ret |-> 0, reader |-> [reader EXCEPT !.ranges = chained.ranges],
              ub |-> chained.ub]
        ELSE [ret |-> 0, reader |-> [reader EXCEPT !.ranges = InsertSorted(reader.ranges, r)],
              ub |-> FALSE]

\* The for loop of sb_read from range index i on; st = [off, pos, rem, buf].
RECURSIVE ReadRanges(_, _, _)
ReadRanges(ranges, i, st) ==
    IF i > Len(ranges) THEN st
    ELSE LET e == ranges[i]
             zerosize == IF e.pos > st.off THEN Min(e.pos - st.off, st.rem) ELSE 0
             z  == [off |-> W(st.off + zerosize), pos |-> st.pos + zerosize,
                    rem |-> st.rem - zerosize, buf |-> memset0(st.buf, st.pos, zerosize)]
             copysize == Min(W(e.size - W(z.off - e.pos)), z.rem)
             c  == [off |-> W(z.off + copysize), pos |-> z.pos + copysize,
                    rem |-> z.rem - copysize,
                    buf |-> memcpy(z.buf, z.pos, e.data, W(z.off - e.pos), copysize)]
         IN  IF W(e.pos + e.size) < st.off THEN ReadRanges(ranges, i + 1, st)
             ELSE IF z.rem = 0 THEN z
             ELSE IF c.rem = 0 THEN c
             ELSE ReadRanges(ranges, i + 1, c)

\* An sb_read that, like read(2), advances the cursor by what it read.
sb_read_advancing(reader, buf) ==
    LET n  == Len(buf)
        st == ReadRanges(reader.ranges, 1, [off |-> reader.pos, pos |-> 0, rem |-> n, buf |-> buf])
        zerosize == Min(W(reader.size - st.off), st.rem)
        fin == IF st.rem > 0 /\ st.off < reader.size
               THEN [rem |-> st.rem - zerosize, buf |-> memset0(st.buf, st.pos, zerosize)]
               ELSE [rem |-> st.rem, buf |-> st.buf]
    IN  IF n = 0 THEN [ret |-> 0, buf |-> buf, reader |-> reader]
        ELSE IF fin.rem # 0 THEN [ret |-> 0, buf |-> fin.buf, reader |-> reader]
        ELSE [ret |-> n, buf |-> fin.buf, reader |-> [reader EXCEPT !.pos = W(reader.pos + n)]]

\* sb_read(reader, buf, size): [ret, buf, reader]; buf is the caller's buffer
\* of size bytes as the call leaves it.
sb_read(reader, buf) ==
    LET n  == Len(buf)
        st == ReadRanges(reader.ranges, 1, [off |-> reader.pos, pos |-> 0, rem |-> n, buf |-> buf])
        zerosize == Min(W(reader.size - st.off), st.rem)
        fin == IF st.rem > 0 /\ st.off < reader.size
               THEN [rem |-> st.rem - zerosize, buf |-> memset0(st.buf, st.pos, zerosize)]
               ELSE [rem |-> st.rem, buf |-> st.buf]
    IN  IF n = 0 THEN [ret |-> 0, buf |-> buf, reader |-> reader]
        ELSE IF fin.rem # 0 THEN [ret |-> 0, buf |-> fin.buf, reader |-> reader]
        ELSE [ret |-> n, buf |-> fin.buf, reader |-> reader]

\* sb_seek(reader, offset, whence, &pos): [ret, reader, pos]; pos is the
\* caller's position output as the call leaves it.
sb_seek(reader, offset, whence, posout) ==
    LET known == whence \in {SB_SET, SB_CUR, SB_END}
        realoffset == IF whence = SB_SET THEN offset
                      ELSE IF whence = SB_CUR THEN W(offset + reader.pos)
                      ELSE W(reader.size - offset)
    IN  IF ~known THEN [ret |-> 0 - 1, reader |-> reader, pos |-> posout]
        ELSE IF whence = SB_END /\ offset > reader.size
        THEN [ret |-> 0 - 1, reader |-> reader, pos |-> posout]
        ELSE IF realoffset > reader.size
        THEN [ret |-> 0 - 1, reader |-> reader, pos |-> posout]
        ELSE [ret |-> 0, reader |-> [reader EXCEPT !.pos = realoffset], pos |-> realoffset]

\* The for loop of sb_remove_range from range index i on, with an allocator
\* that succeeds.
RECURSIVE RemoveRanges(_, _, _, _)
RemoveRanges(ranges, i, start, end) ==
    IF i > Len(ranges) THEN ranges
    ELSE LET e        == ranges[i]
             rngstart == e.pos
             rngend   == W(e.pos + e.size - 1)
             \* split
             rng0size == W(rngend + 1 - (end + 1))
             rng0     == Range(end + 1, rng0size,
                               memcpy(malloc(rng0size), 0, e.data, W(end + 1 - rngstart), rng0size))
             at       == FindPos(ranges, e.pos)
             ei       == IF at < i THEN i + 1 ELSE i
             split    == [range_insert_after(ranges, rng0, e.pos) EXCEPT
                             ![ei] = Range(e.pos, W(start - e.pos),
                                           realloc(e.data, W(start - e.pos)))]
             \* truncation
             head     == IF rngstart < start
                         THEN Range(e.pos, W(start - e.pos), realloc(e.data, W(start - e.pos)))
                         ELSE e
             tailsize == W(head.size - W(end + 1 - head.pos))
             tail     == IF rngend > end
                         THEN Range(end + 1, tailsize,
                                    memcpy(malloc(tailsize), 0, head.data,
                                           W(head.size - tailsize), tailsize))
                         ELSE head
         IN  IF rngstart > end THEN ranges
             ELSE IF rngend < start THEN RemoveRanges(ranges, i + 1, start, end)
             ELSE IF rngstart >= start /\ rngend <= end
             THEN RemoveRanges(range_remove(ranges, e.pos), i, start, end)
             ELSE IF rngend > end /\ rngstart < start
             THEN RemoveRanges(split, at + 2, start, end)
             ELSE RemoveRanges([ranges EXCEPT ![i] = tail], i + 1, start, end)

\* sb_remove_range(reader, start, end): [ret, reader].
sb_remove_range(reader, start, end) ==
    IF end >= reader.size \/ end < start
    THEN [ret |-> 0 - 1, reader |-> reader]
    ELSE [ret |-> 0,
          reader |-> [reader EXCEPT !.ranges = RemoveRanges(reader.ranges, 1, start, end)]]

\* An sb_resize that shrinks without clamping the cursor.
sb_resize_unclamped(reader, newsize) ==
    LET rm == sb_remove_range(reader, newsize, W(reader.size - 1))
    IN  IF newsize = 0 THEN [ret |-> 0 - 1, reader |-> reader]
        ELSE IF newsize < reader.size
        THEN IF rm.ret < 0 THEN rm
             ELSE [ret |-> 0, reader |-> [rm.reader EXCEPT !.size = newsize]]
        ELSE [ret |-> 0, reader |-> [reader EXCEPT !.size = newsize]]

\* sb_resize(reader, newsize): [ret, reader].
sb_resize(reader, newsize) ==
    LET rm == sb_remove_range(reader, newsize, W(reader.size - 1))
    IN  IF newsize = 0 THEN [ret |-> 0 - 1, reader |-> reader]
        ELSE IF newsize < reader.size
        THEN IF rm.ret < 0 THEN rm
             ELSE [ret |-> 0,
                   reader |-> [rm.reader EXCEPT !.size = newsize,
                                                !.pos = Min(rm.reader.pos, newsize)]]
        ELSE [ret |-> 0, reader |-> [reader EXCEPT !.size = newsize]]

(* ------------------- the API when the allocator fails ------------------ *)

\* The custom allocator of sb_new_reader_custom_alloc may return NULL.  In
\* the operators below avail is the number of allocations (malloc and
\* realloc alike) that still succeed during the call; the next one fails.
\* Their results carry failed: an allocation of the call returned NULL.

\* The while (mergeagain) loop of sb_load_range: [ranges, ub, ret, failed].
RECURSIVE MergeFurtherAlloc(_, _, _)
MergeFurtherAlloc(ranges, m, avail) ==
    IF m + 1 > Len(ranges)
    THEN [ranges |-> ranges, ub |-> FALSE, ret |-> 0, failed |-> FALSE]
    ELSE LET e    == ranges[m + 1]
             mr   == merge(ranges[m], e)
             upd  == [ranges EXCEPT ![m] = mr.r]
             gone == FindPos(upd, e.pos)
         IN  IF ~mr.merged
             THEN [ranges |-> ranges, ub |-> FALSE, ret |-> 0, failed |-> FALSE]
             ELSE IF avail = 0
             THEN [ranges |-> ranges, ub |-> FALSE, ret |-> 0 - 1, failed |-> TRUE]
             ELSE IF gone = m
             THEN [ranges |-> range_remove(upd, e.pos), ub |-> TRUE, ret |-> 0,
                   failed |-> FALSE]
             ELSE MergeFurtherAlloc(range_remove(upd, e.pos),
                                    IF gone < m THEN m - 1 ELSE m, avail - 1)

\* sb_load_range(reader, pos, buf, bufsize): [ret, reader, ub, failed].
sb_load_range_alloc(reader, p, buf, avail) ==
    LET bufsize == Len(buf)
        r       == Range(p, bufsize, memcpy(malloc(bufsize), 0, buf, 0, bufsize))
        m       == FirstMerged(reader.ranges, r)
        chained == MergeFurtherAlloc(
                       [reader.ranges EXCEPT ![m] = merge(r, reader.ranges[m]).r],
                       m, avail - 3)
    IN  IF bufsize = 0 \/ W(reader.pos + bufsize) > reader.size
        THEN [ret |-> 0 - 1, reader |-> reader, ub |-> FALSE, failed |-> FALSE]
        ELSE IF avail < 2
        THEN [ret |-> 0 - 1, reader |-> reader, ub |-> FALSE, failed |-> TRUE]
        ELSE IF reader.ranges = << >>
        THEN [ret |-> 0, reader |-> [reader EXCEPT !.ranges = <<r>>], ub |-> FALSE,
              failed |-> FALSE]
        ELSE IF m # 0 /\ avail < 3
        THEN [ret |-> 0 - 1, reader |-> reader, ub |-> FALSE, failed |-> TRUE]
        ELSE IF m # 0
        THEN [ret |-> chained.ret, reader |-> [reader EXCEPT !.ranges = chained.ranges],
              ub |-> chained.ub, failed |-> chained.failed]
        ELSE [ret |-> 0, reader |-> [reader EXCEPT !.ranges = InsertSorted(reader.ranges, r)],
              ub |-> FALSE, failed |-> FALSE]

\* The for loop of sb_remove_range from range index i on: [ranges, ret,
\* failed].  A failed realloc leaves e->size already reduced and e->data as
\* it was; the failed malloc of the tail truncation leaves e->pos and
\* e->size already moved, e->data as it was, and returns 1.
RECURSIVE RemoveRangesAlloc(_, _, _, _, _)
RemoveRangesAlloc(ranges, i, start, end, avail) ==
    IF i > Len(ranges) THEN [ranges |-> ranges, ret |-> 0, failed |-> FALSE]
    ELSE LET e        == ranges[i]
             rngstart == e.pos
             rngend   == W(e.pos + e.size - 1)
             \* split
             rng0size == W(rngend + 1 - (end + 1))
             rng0     == Range(end + 1, rng0size,
                               memcpy(malloc(rng0size), 0, e.data, W(end + 1 - rngstart), rng0size))
             at       == FindPos(ranges, e.pos)
             ei       == IF at < i THEN i + 1 ELSE i
             shrunk   == [range_insert_after(ranges, rng0, e.pos) EXCEPT
                             ![ei] = Range(e.pos, W(start - e.pos), e.data)]
             split    == [shrunk EXCEPT ![ei].data = realloc(e.data, W(start - e.pos))]
             \* truncation
             cut      == Range(e.pos, W(start - e.pos), e.data)
             head     == IF rngstart < start
                         THEN Range(e.pos, W(start - e.pos), realloc(e.data, W(start - e.pos)))
                         ELSE e
             left     == IF rngstart < start THEN avail - 1 ELSE avail
             tailsize == W(head.size - W(end + 1 - head.pos))
             moved    == Range(end + 1, tailsize, head.data)
             tail     == IF rngend > end
                         THEN Range(end + 1, tailsize,
                                    memcpy(malloc(tailsize), 0, head.data,
                                           W(head.size - tailsize), tailsize))
                         ELSE head
         IN  IF rngstart > end THEN [ranges |-> ranges, ret |-> 0, failed |-> FALSE]
             ELSE IF rngend < start THEN RemoveRangesAlloc(ranges, i + 1, start, end, avail)
             ELSE IF rngstart >= start /\ rngend <= end
             THEN RemoveRangesAlloc(range_remove(ranges, e.pos), i, start, end, avail)
             ELSE IF rngend > end /\ rngstart < start
             THEN IF avail < 2 THEN [ranges |-> ranges, ret |-> 0 - 1, failed |-> TRUE]
                  ELSE IF avail = 2 THEN [ranges |-> shrunk, ret |-> 0 - 1, failed |-> TRUE]
                  ELSE RemoveRangesAlloc(split, at + 2, start, end, avail - 3)
             ELSE IF rngstart < start /\ avail = 0
             THEN [ranges |-> [ranges EXCEPT ![i] = cut], ret |-> 0 - 1, failed |-> TRUE]
             ELSE IF rngend > end /\ left = 0
             THEN [ranges |-> [ranges EXCEPT ![i] = moved], ret |-> 1, failed |-> TRUE]
             ELSE RemoveRangesAlloc([ranges EXCEPT ![i] = tail], i + 1, start, end,
                                    IF rngend > end THEN left - 1 ELSE left)

\* sb_remove_range(reader, start, end): [ret, reader, failed].
sb_remove_range_alloc(reader, start, end, avail) ==
    LET rm == RemoveRangesAlloc(reader.ranges, 1, start, end, avail)
    IN  IF end >= reader.size \/ end < start
        THEN [ret |-> 0 - 1, reader |-> reader, failed |-> FALSE]
        ELSE [ret |-> rm.ret, reader |-> [reader EXCEPT !.ranges = rm.ranges],
              failed |-> rm.failed]

\* sb_resize(reader, newsize): [ret, reader, failed].
sb_resize_alloc(reader, newsize, avail) ==
    LET rm == sb_remove_range_alloc(reader, newsize, W(reader.size - 1), avail)
    IN  IF newsize = 0 THEN [ret |-> 0 - 1, reader |-> reader, failed |-> FALSE]
        ELSE IF newsize < reader.size
        THEN IF rm.ret < 0 THEN rm
             ELSE [ret |-> 0,
                   reader |-> [rm.reader EXCEPT !.size = newsize,
                                                !.pos = Min(rm.reader.pos, newsize)],
                   failed |-> rm.failed]
        ELSE [ret |-> 0, reader |-> [reader EXCEPT !.size = newsize], failed |-> FALSE]

(* ------------------------------ the system ----------------------------- *)

\* reader: the SBReader.  op, ret, out: the last call made on it, what it
\* returned, and what it left in the caller's output (the buffer of sb_read,
\* the position of sb_seek).  old: the SBReader as that call found it.
\* ub: the last call ran into undefined behaviour.
VARIABLES reader, old, op, ret, out, ub

vars == <<reader, old, op, ret, out, ub>>

\* What the callers pass: every size, payload, position and length up to the
\* bounds, with the arguments each call rejects among them.
Sizes      == 1..MaxSize
Payloads   == UNION {[1..n -> Bytes] : n \in 0..MaxLen}
LoadPos    == 0..MaxPos
ReadSizes  == 0..(MaxSize + 1)
SeekArgs   == ((0..(MaxSize + 1)) \X {SB_SET, SB_CUR, SB_END})
                 \cup {<<SizeMax, SB_CUR>>, <<SizeMax, SB_END>>, <<0, SB_END + 1>>}
RemoveArgs == {a \in (0..MaxSize) \X (0..MaxSize) : a[1] <= a[2]} \cup {<<1, 0>>}
NewSizes   == 0..MaxSize

Init ==
    /\ reader \in {sb_new_reader(sz) : sz \in Sizes}
    /\ old = reader
    /\ op = "new"
    /\ ret = 0
    /\ out = << >>
    /\ ub = FALSE

\* The calls that return before they read a field of the reader, and so
\* return the same on a NULL reader: a load of no bytes, a read of no bytes,
\* a seek with an unknown whence and a resize to zero.
NullSafeLoad(buf)       == Len(buf) = 0
NullSafeRead(n)         == n = 0
NullSafeSeek(whence)    == whence \notin {SB_SET, SB_CUR, SB_END}
NullSafeResize(newsize) == newsize = 0

LoadRange(p, buf) ==
    LET c == sb_load_range(reader, p, buf)
    IN  /\ ~ub
        /\ reader # NULL \/ NullSafeLoad(buf)
        /\ old' = reader
        /\ reader' = c.reader
        /\ op' = "load"
        /\ ret' = c.ret
        /\ out' = << >>
        /\ ub' = c.ub

Read(n) ==
    LET c == sb_read(reader, malloc(n))
    IN  /\ ~ub
        /\ reader # NULL \/ NullSafeRead(n)
        /\ old' = reader
        /\ reader' = c.reader
        /\ op' = "read"
        /\ ret' = c.ret
        /\ out' = c.buf
        /\ ub' = FALSE

Seek(offset, whence) ==
    LET c == sb_seek(reader, offset, whence, Junk)
    IN  /\ ~ub
        /\ reader # NULL \/ NullSafeSeek(whence)
        /\ old' = reader
        /\ reader' = c.reader
        /\ op' = "seek"
        /\ ret' = c.ret
        /\ out' = <<c.pos>>
        /\ ub' = FALSE

RemoveRange(start, end) ==
    LET c == sb_remove_range(reader, start, end)
    IN  /\ ~ub
        /\ reader # NULL
        /\ old' = reader
        /\ reader' = c.reader
        /\ op' = "remove"
        /\ ret' = c.ret
        /\ out' = << >>
        /\ ub' = FALSE

Resize(newsize) ==
    LET c == sb_resize(reader, newsize)
    IN  /\ ~ub
        /\ reader # NULL \/ NullSafeResize(newsize)
        /\ old' = reader
        /\ reader' = c.reader
        /\ op' = "resize"
        /\ ret' = c.ret
        /\ out' = << >>
        /\ ub' = FALSE

Clear ==
    /\ ~ub
    /\ reader # NULL
    /\ old' = reader
    /\ reader' = sb_clear(reader)
    /\ op' = "clear"
    /\ ret' = 0
    /\ out' = << >>
    /\ ub' = FALSE

BytesLeft ==
    /\ ~ub
    /\ reader # NULL
    /\ old' = reader
    /\ reader' = reader
    /\ op' = "bytes_left"
    /\ ret' = sb_bytes_left(reader)
    /\ out' = << >>
    /\ ub' = FALSE

Size ==
    /\ ~ub
    /\ reader # NULL
    /\ old' = reader
    /\ reader' = reader
    /\ op' = "size"
    /\ ret' = sb_size(reader)
    /\ out' = << >>
    /\ ub' = FALSE

\* sb_free_reader(&reader): the reader is gone and the caller holds NULL.
FreeReader ==
    /\ ~ub
    /\ reader # NULL
    /\ old' = reader
    /\ reader' = sb_free_reader(reader)
    /\ op' = "free"
    /\ ret' = 0
    /\ out' = << >>
    /\ ub' = FALSE

\* A call on the pointer sb_free_reader() has set to NULL that reads a field
\* of the reader, which is undefined: sb_free_reader, sb_clear, sb_bytes_left,
\* sb_size and sb_remove_range with any arguments, and sb_load_range,
\* sb_read, sb_seek and sb_resize with arguments that pass their first check
\* (the others are steps of LoadRange, Read, Seek and Resize).
CallOnNull ==
    /\ ~ub
    /\ reader = NULL
    /\ old' = reader
    /\ reader' = reader
    /\ op' = "call_on_null"
    /\ ret' = 0
    /\ out' = << >>
    /\ ub' = TRUE

Next ==
    \/ \E p \in LoadPos, buf \in Payloads : LoadRange(p, buf)
    \/ \E n \in ReadSizes : Read(n)
    \/ \E a \in SeekArgs : Seek(a[1], a[2])
    \/ \E a \in RemoveArgs : RemoveRange(a[1], a[2])
    \/ \E newsize \in NewSizes : Resize(newsize)
    \/ Clear
    \/ BytesLeft
    \/ Size
    \/ FreeReader
    \/ CallOnNull

Spec == Init /\ [][Next]_vars

\* A reader as large as size_t allows, and callers that work at the top of
\* the address space, where pos + bufsize wraps around.  The range list such
\* loads build is kept to MaxRanges entries.
HighSize        == SizeMax
HighPos         == (SizeMax - MaxLen)..SizeMax
HighPayloads    == {[i \in 1..n |-> b] : n \in 1..(MaxLen + 1), b \in Bytes}
HighReadSizes   == 1..MaxLen
HighSeekArgs    == {<<k, SB_END>> : k \in 0..(MaxLen + 1)}
HighRemoveArgs  == {a \in HighPos \X HighPos : a[1] <= a[2]}

InitHigh ==
    /\ reader = sb_new_reader(HighSize)
    /\ old = reader
    /\ op = "new"
    /\ ret = 0
    /\ out = << >>
    /\ ub = FALSE

LoadRangeHigh(p, buf) ==
    /\ reader # NULL
    /\ Len(reader.ranges) < MaxRanges
    /\ LoadRange(p, buf)

NextHigh ==
    \/ \E p \in HighPos, buf \in HighPayloads : LoadRangeHigh(p, buf)
    \/ \E n \in HighReadSizes : Read(n)
    \/ \E a \in HighSeekArgs : Seek(a[1], a[2])
    \/ \E a \in HighRemoveArgs : RemoveRange(a[1], a[2])
    \/ Clear
    \/ FreeReader
    \/ CallOnNull

SpecHigh == InitHigh /\ [][NextHigh]_vars

(* ------------------------- vocabulary of the claims -------------------- *)

\* Range r holds a byte for offset o.
Covers(r, o) == r.pos <= o /\ o < r.pos + r.size

\* The bytes the range list of rd stores for offset o.
StoredAt(rd, o) ==
    {rd.ranges[i].data[o - rd.ranges[i].pos + 1] :
        i \in {j \in 1..Len(rd.ranges) : Covers(rd.ranges[j], o)}}

\* What a caller reads at offset o: the byte a one byte sb_read returns with
\* the cursor at o (Junk if that read fails).
ByteRead(rd, o) == sb_read([rd EXCEPT !.pos = o], malloc(1)).buf[1]

\* The offsets a caller can seek to and read one byte from.
Offsets(rd) == 0..(rd.size - 1)

\* The arguments the callers of either specification pass.
AllLoadPos    == LoadPos \cup HighPos
AllPayloads   == Payloads \cup HighPayloads
AllRemoveArgs == RemoveArgs \cup HighRemoveArgs
AllSeekArgs   == SeekArgs \cup HighSeekArgs

\* The last call was this one: it took old to reader and returned ret.
WasLoad(p, buf) ==
    /\ op = "load"
    /\ old # NULL \/ NullSafeLoad(buf)
    /\ sb_load_range(old, p, buf).ret = ret
    /\ sb_load_range(old, p, buf).reader = reader

WasSeek(offset, whence) ==
    /\ op = "seek"
    /\ old # NULL \/ NullSafeSeek(whence)
    /\ sb_seek(old, offset, whence, Junk).ret = ret
    /\ sb_seek(old, offset, whence, Junk).reader = reader
    /\ <<sb_seek(old, offset, whence, Junk).pos>> = out

WasRemove(start, end) ==
    /\ op = "remove"
    /\ sb_remove_range(old, start, end).ret = ret
    /\ sb_remove_range(old, start, end).reader = reader

WasResize(newsize) ==
    /\ op = "resize"
    /\ old # NULL \/ NullSafeResize(newsize)
    /\ sb_resize(old, newsize).ret = ret
    /\ sb_resize(old, newsize).reader = reader

(* ------------------ the calls with a failing allocator ----------------- *)

\* A reader of the largest size and callers whose allocator may run out of
\* memory during a call: it serves avail more allocations and fails the
\* next one.  Payloads are runs of one byte value, and a call whose
\* allocation fails is made on a list of at most MaxRanges ranges that an
\* earlier failure has left no stale data in.
AllocPayloads == {[i \in 1..n |-> b] : n \in 1..MaxLen, b \in Bytes}
AllocSeekArgs == {<<k, SB_SET>> : k \in 0..MaxSize}
Avails == 0..MaxAvail

\* No range carries the longer data a failed realloc or malloc left behind.
Intact(ranges) == \A i \in 1..Len(ranges) : Len(ranges[i].data) = ranges[i].size

\* A load with an allocator that has memory, on a list of at most MaxRanges
\* ranges.
LoadRangeRoom(p, buf) ==
    /\ reader # NULL
    /\ Len(reader.ranges) <= MaxRanges
    /\ LoadRange(p, buf)

LoadRangeAlloc(p, buf, avail) ==
    LET c == sb_load_range_alloc(reader, p, buf, avail)
    IN  /\ ~ub
        /\ reader # NULL
        /\ Len(reader.ranges) <= MaxRanges
        /\ Intact(reader.ranges)
        /\ c.failed
        /\ old' = reader
        /\ reader' = c.reader
        /\ op' = "load"
        /\ ret' = c.ret
        /\ out' = << >>
        /\ ub' = c.ub

RemoveRangeAlloc(start, end, avail) ==
    LET c == sb_remove_range_alloc(reader, start, end, avail)
    IN  /\ ~ub
        /\ reader # NULL
        /\ Len(reader.ranges) <= MaxRanges
        /\ Intact(reader.ranges)
        /\ c.failed
        /\ old' = reader
        /\ reader' = c.reader
        /\ op' = "remove"
        /\ ret' = c.ret
        /\ out' = << >>
        /\ ub' = FALSE

ResizeAlloc(newsize, avail) ==
    LET c == sb_resize_alloc(reader, newsize, avail)
    IN  /\ ~ub
        /\ reader # NULL
        /\ Len(reader.ranges) <= MaxRanges
        /\ Intact(reader.ranges)
        /\ c.failed
        /\ old' = reader
        /\ reader' = c.reader
        /\ op' = "resize"
        /\ ret' = c.ret
        /\ out' = << >>
        /\ ub' = FALSE

InitAlloc ==
    /\ reader = sb_new_reader(MaxSize)
    /\ old = reader
    /\ op = "new"
    /\ ret = 0
    /\ out = << >>
    /\ ub = FALSE

\* Resize(0) is the resize that no allocator can fail: it is rejected before
\* anything is allocated, and before the reader is read.
NextAlloc ==
    \/ \E p \in LoadPos, buf \in AllocPayloads : LoadRangeHigh(p, buf)
    \/ \E p \in LoadPos, buf \in AllocPayloads, avail \in Avails :
          LoadRangeAlloc(p, buf, avail)
    \/ \E a \in RemoveArgs, avail \in Avails : RemoveRangeAlloc(a[1], a[2], avail)
    \/ \E n \in NewSizes, avail \in Avails : ResizeAlloc(n, avail)
    \/ Resize(0)
    \/ \E a \in AllocSeekArgs : Seek(a[1], a[2])
    \/ FreeReader
    \/ CallOnNull

SpecAlloc == InitAlloc /\ [][NextAlloc]_vars

\* The last call was this one, made with an allocator that served avail
\* allocations and failed the next.
WasLoadAlloc(p, buf, avail) ==
    /\ op = "load"
    /\ old # NULL
    /\ sb_load_range_alloc(old, p, buf, avail).failed
    /\ sb_load_range_alloc(old, p, buf, avail).ret = ret
    /\ sb_load_range_alloc(old, p, buf, avail).reader = reader

WasRemoveAlloc(start, end, avail) ==
    /\ op = "remove"
    /\ sb_remove_range_alloc(old, start, end, avail).failed
    /\ sb_remove_range_alloc(old, start, end, avail).ret = ret
    /\ sb_remove_range_alloc(old, start, end, avail).reader = reader

WasResizeAlloc(newsize, avail) ==
    /\ op = "resize"
    /\ old # NULL
    /\ sb_resize_alloc(old, newsize, avail).failed
    /\ sb_resize_alloc(old, newsize, avail).ret = ret
    /\ sb_resize_alloc(old, newsize, avail).reader = reader

\* Callers that go on using the reader after a load failed for want of
\* memory: loads that succeed, loads whose allocation fails, and removals.
NextAfterFailure ==
    \/ \E p \in LoadPos, buf \in AllocPayloads : LoadRangeRoom(p, buf)
    \/ \E p \in LoadPos, buf \in AllocPayloads, avail \in Avails :
          LoadRangeAlloc(p, buf, avail)
    \/ \E a \in RemoveArgs : RemoveRange(a[1], a[2])
    \/ FreeReader
    \/ CallOnNull

SpecAfterFailure == InitAlloc /\ [][NextAfterFailure]_vars

(* -------------------------------- claims ------------------------------- *)

\* C1 (as claimed): a successful read of N bytes with the cursor at c returns, for every
\* i in 0..N-1, the byte the covering range stores for offset c+i, and 0
\* where no range covers c+i.
C1_ReadReturnsContent ==
    (op = "read" /\ Len(out) > 0 /\ ret = Len(out)) =>
        \A i \in 1..Len(out) :
            IF StoredAt(reader, reader.pos + i - 1) = {}
            THEN out[i] = 0
            ELSE StoredAt(reader, reader.pos + i - 1) = {out[i]}

\* C2 (as claimed): after every successful loadRange, removeRange and resize
\* every range lies inside the logical buffer, start + length <= size.
C2_RangesInsideSize ==
    (op \in {"load", "remove", "resize"} /\ ret = 0) =>
        \A i \in 1..Len(reader.ranges) :
            reader.ranges[i].pos + reader.ranges[i].size <= reader.size

\* C3 (as claimed): as long as the reader exists, the range list is
\* strictly ascending by start offset, every range has
\* length > 0 (and holds that many bytes), and consecutive ranges neither
\* overlap nor touch.
C3_SortedDisjoint ==
    reader # NULL =>
        \A i \in 1..Len(reader.ranges) :
            /\ reader.ranges[i].size > 0
            /\ Len(reader.ranges[i].data) = reader.ranges[i].size
            /\ i < Len(reader.ranges) =>
                  reader.ranges[i].pos + reader.ranges[i].size
                      < reader.ranges[i + 1].pos

\* C4 (as claimed): a read of N bytes succeeds (returns N, N > 0) if and
\* only if N > 0 and cursor + N <= size.
C4_ReadSucceedsIffInside ==
    op = "read" =>
        ((ret = Len(out) /\ ret > 0)
            <=> (Len(out) > 0 /\ reader.pos + Len(out) <= reader.size))

\* C5 (as claimed): after a range is loaded, loading a second range that
\* starts strictly later and overlaps the first makes every offset of the
\* second range read the second's bytes, and the offsets of the first below
\* the second's start read the first's bytes.
C5_SecondWinsOverlap ==
    \A p \in AllLoadPos, buf \in AllPayloads :
        (/\ WasLoad(p, buf)
         /\ ret = 0
         /\ Len(old.ranges) = 1
         /\ old.ranges[1].pos < p
         /\ p < old.ranges[1].pos + old.ranges[1].size) =>
            \A o \in Offsets(reader) :
                /\ (p <= o /\ o < p + Len(buf)) => ByteRead(reader, o) = buf[o - p + 1]
                /\ (old.ranges[1].pos <= o /\ o < p) =>
                      ByteRead(reader, o) = old.ranges[1].data[o - old.ranges[1].pos + 1]

\* C6 (as claimed): after a successful removeRange(start, end) every offset in
\* [start, end] reads as zero and every other offset reads the byte it read
\* before the removal.
C6_RemoveZeroesInterval ==
    \A a \in AllRemoveArgs :
        (WasRemove(a[1], a[2]) /\ ret = 0) =>
            \A o \in Offsets(reader) :
                ByteRead(reader, o) =
                    IF a[1] <= o /\ o <= a[2] THEN 0 ELSE ByteRead(old, o)

\* C7: a read, successful or failed, leaves the cursor, the size and the
\* range list as it found them.
C7_ReadLeavesReader == op = "read" => reader = old

\* A successful read of loaded data away from offset 0.
C7_Witness ==
    /\ op = "read"
    /\ reader # NULL
    /\ ret = Len(out)
    /\ reader.pos > 0
    /\ reader.pos + Len(out) <= reader.size
    /\ \E i \in 1..Len(out) : out[i] \in Bytes

\* C8: 0 <= cursor <= size in every state of a reader that has not been
\* freed, so size - cursor does not underflow: sb_bytes_left is the exact
\* difference.
C8_CursorInsideSize ==
    reader # NULL =>
        /\ 0 <= reader.pos
        /\ reader.pos <= reader.size
        /\ sb_bytes_left(reader) = reader.size - reader.pos
        /\ op = "bytes_left" => ret = reader.size - reader.pos

\* A resize below the cursor.
C8_Witness ==
    /\ op = "resize"
    /\ ret = 0
    /\ old.pos > reader.size

\* C9 (as claimed): seek succeeds, sets the cursor to the target and returns
\* it exactly when the target (offset, cursor + offset or size - offset) lies
\* in [0, size], and otherwise fails leaving cursor and position output alone.
C9_SeekExactlyInsideSize ==
    \A a \in AllSeekArgs :
        (WasSeek(a[1], a[2]) /\ a[2] \in {SB_SET, SB_CUR, SB_END}) =>
            LET target == IF a[2] = SB_SET THEN a[1]
                          ELSE IF a[2] = SB_CUR THEN old.pos + a[1]
                          ELSE old.size - a[1]
            IN  IF 0 <= target /\ target <= old.size
                THEN ret = 0 /\ reader = [old EXCEPT !.pos = target] /\ out = <<target>>
                ELSE ret < 0 /\ reader = old /\ out = <<Junk>>

\* C10 (as claimed): a successful resize to newSize < size leaves no range
\* extending beyond newSize, leaves the bytes below newSize unchanged, sets
\* size to newSize and the cursor to min(cursor, newSize).
C10_ShrinkDiscardsTail ==
    \A n \in NewSizes :
        (WasResize(n) /\ ret = 0 /\ n < old.size) =>
            /\ \A i \in 1..Len(reader.ranges) :
                  reader.ranges[i].pos + reader.ranges[i].size <= n
            /\ \A o \in 0..(n - 1) : ByteRead(reader, o) = ByteRead(old, o)
            /\ reader.size = n
            /\ reader.pos = Min(old.pos, n)

\* C11 (as claimed): after a successful resize from oldSize to a larger
\* newSize every offset in [oldSize, newSize) reads as zero, and the range
\* list and the cursor are as before the resize.
C11_GrowReadsZero ==
    \A n \in NewSizes :
        (WasResize(n) /\ ret = 0 /\ n > old.size) =>
            /\ \A o \in old.size..(n - 1) : ByteRead(reader, o) = 0
            /\ reader.ranges = old.ranges
            /\ reader.pos = old.pos

\* C12 (as claimed): a load is rejected exactly when the payload length is 0
\* or cursor + length > size, and a rejected load leaves the range list, the
\* cursor and the size as they were.
C12_LoadRejectedExactly ==
    \A p \in AllLoadPos, buf \in AllPayloads :
        WasLoad(p, buf) =>
            IF Len(buf) = 0 \/ old.pos + Len(buf) > old.size
            THEN ret < 0 /\ reader = old
            ELSE ret = 0

\* The new range [p, p + n) neither overlaps nor touches range e.
Apart(p, n, e) == p + n < e.pos \/ e.pos + e.size < p

\* C13 (as claimed): a freshly created buffer reads as zeros, and a load that
\* neither overlaps nor touches an existing range adds the range at its
\* sorted position and changes no other range: afterwards the offsets of the
\* new range read its bytes and every other offset reads as before.
C13_DisjointLoadAddsRange ==
    /\ op = "new" => \A o \in Offsets(reader) : ByteRead(reader, o) = 0
    /\ \A p \in AllLoadPos, buf \in AllPayloads :
          (/\ WasLoad(p, buf)
           /\ ret = 0
           /\ \A i \in 1..Len(old.ranges) : Apart(p, Len(buf), old.ranges[i])) =>
              /\ \E k \in 0..Len(old.ranges) :
                    /\ reader.ranges = InsertAt(old.ranges, k + 1, Range(p, Len(buf), buf))
                    /\ \A i \in 1..k : old.ranges[i].pos < p
                    /\ \A i \in (k + 1)..Len(old.ranges) : p < old.ranges[i].pos
              /\ \A o \in Offsets(reader) :
                    ByteRead(reader, o) =
                        IF p <= o /\ o < p + Len(buf) THEN buf[o - p + 1]
                        ELSE ByteRead(old, o)

\* C14: clear removes every range and leaves size and cursor as they were,
\* so every offset reads as zero afterwards; clearing an empty buffer and
\* resizing to the current size change nothing.
C14_ClearAndNoOps ==
    /\ op = "clear" =>
          /\ reader = [old EXCEPT !.ranges = << >>]
          /\ \A o \in Offsets(reader) : ByteRead(reader, o) = 0
          /\ old.ranges = << >> => reader = old
    /\ (old # NULL /\ WasResize(old.size) /\ old.size \in NewSizes) =>
          ret = 0 /\ reader = old

\* A clear of a list of two ranges.
C14_Witness ==
    /\ op = "clear"
    /\ Len(old.ranges) = 2
    /\ reader.ranges = << >>

\* Where a seek is meant to go, before any wrap-around.
SeekTarget(rd, offset, whence) ==
    IF whence = SB_SET THEN offset
    ELSE IF whence = SB_CUR THEN rd.pos + offset
    ELSE rd.size - offset

\* C15 (as claimed): a call with an invalid argument (create or resize
\* with size 0, load of zero bytes, remove with end >= size or end < start,
\* read of zero bytes, seek with an invalid mode or a target outside
\* [0, size]) returns its error value and leaves size, cursor and range
\* list as they were.
C15_RejectedCallsChangeNothing ==
    /\ sb_new_reader(0) = NULL
    /\ WasResize(0) => ret < 0 /\ reader = old
    /\ \A p \in AllLoadPos : WasLoad(p, << >>) => ret < 0 /\ reader = old
    /\ \A a \in AllRemoveArgs :
          (WasRemove(a[1], a[2]) /\ (a[2] >= old.size \/ a[2] < a[1])) =>
              ret < 0 /\ reader = old
    /\ (op = "read" /\ Len(out) = 0) => ret = 0 /\ reader = old
    /\ \A a \in AllSeekArgs :
          (/\ WasSeek(a[1], a[2])
           /\ \/ a[2] \notin {SB_SET, SB_CUR, SB_END}
              \/ SeekTarget(old, a[1], a[2]) \notin 0..old.size) =>
              ret < 0 /\ reader = old

\* C16 (as claimed): sb_remove_range and sb_resize return 0 or a negative
\* value; when an allocation inside the removal fails they return a negative
\* value, and sb_resize then leaves the size as it was.
C16_RemovalFailureIsNegative ==
    /\ op \in {"remove", "resize"} => ret <= 0
    /\ \A a \in AllRemoveArgs, avail \in Avails :
          WasRemoveAlloc(a[1], a[2], avail) => ret < 0
    /\ \A n \in NewSizes, avail \in Avails :
          WasResizeAlloc(n, avail) => ret < 0 /\ reader.size = old.size

\* C17 (as claimed): when an allocation of sb_load_range fails (the copy of
\* the payload, the first merge or a chained merge), the call returns an
\* error and the range list is what it was before the call.
C17_LoadAllOrNothing ==
    \A p \in AllLoadPos, buf \in AllPayloads, avail \in Avails :
        WasLoadAlloc(p, buf, avail) => ret < 0 /\ reader = old

\* C18 (as claimed): only sb_seek moves the cursor; every other call
\* leaves it where it was (sb_free_reader leaves no cursor to compare).
C18_OnlySeekMovesCursor ==
    (op # "seek" /\ reader # NULL) => reader.pos = old.pos

\* C18 (amended): the cursor is moved by sb_seek and by an sb_resize that
\* shrinks the buffer below the cursor, which puts the cursor at the new
\* size; every other call leaves it where it was (sb_free_reader leaves no
\* cursor to compare).
C18_SeekOrShrinkMovesCursor ==
    (op # "seek" /\ reader # NULL) =>
        IF op = "resize" /\ ret = 0 /\ reader.size < old.pos
        THEN reader.pos = reader.size
        ELSE reader.pos = old.pos

\* A resize below the cursor, which clamped it.
C18_Witness ==
    /\ op = "resize"
    /\ ret = 0
    /\ reader.size < old.pos
    /\ reader.pos = reader.size
    /\ reader.pos # old.pos

\* Ranges a and b share an offset, and neither lies inside the other.
PartialOverlap(a, b) ==
    /\ a.pos < b.pos + b.size
    /\ b.pos < a.pos + a.size
    /\ ~(a.pos <= b.pos /\ b.pos + b.size <= a.pos + a.size)
    /\ ~(b.pos <= a.pos /\ a.pos + a.size <= b.pos + b.size)

\* C19 (as claimed): when a load partially overlaps the one range of the
\* list, every offset of the range that starts higher reads that range's
\* byte, and the offsets below its start read the lower range's bytes,
\* whichever of the two is the new one.
C19_HigherStartWins ==
    \A p \in AllLoadPos, buf \in AllPayloads :
        (/\ WasLoad(p, buf)
         /\ ret = 0
         /\ Len(old.ranges) = 1
         /\ PartialOverlap(Range(p, Len(buf), buf), old.ranges[1])) =>
            LET new == Range(p, Len(buf), buf)
                e   == old.ranges[1]
                lo  == IF new.pos < e.pos THEN new ELSE e
                hi  == IF new.pos < e.pos THEN e ELSE new
            IN  \A o \in Offsets(reader) :
                    /\ (hi.pos <= o /\ o < hi.pos + hi.size) =>
                          ByteRead(reader, o) = hi.data[o - hi.pos + 1]
                    /\ (lo.pos <= o /\ o < hi.pos) =>
                          ByteRead(reader, o) = lo.data[o - lo.pos + 1]

\* Range a covers every offset of range b.
Inside(b, a) == a.pos <= b.pos /\ b.pos + b.size <= a.pos + a.size

\* C20 (as claimed): when a load hits one range of the list and one of the
\* two lies inside the other, the merged range is the containing one: a
\* load inside the existing range changes no readable byte, and a load that
\* covers it (its exact extent included) replaces it by the new range.
C20_ContainingRangeWins ==
    \A p \in AllLoadPos, buf \in AllPayloads :
        (WasLoad(p, buf) /\ ret = 0 /\ Len(old.ranges) = 1) =>
            LET new == Range(p, Len(buf), buf)
                e   == old.ranges[1]
            IN  /\ Inside(e, new) => reader.ranges = <<new>>
                /\ (Inside(new, e) /\ ~Inside(e, new)) =>
                      /\ reader.ranges = <<e>>
                      /\ \A o \in Offsets(reader) : ByteRead(reader, o) = ByteRead(old, o)

\* The offsets some range of rd holds a byte for.
Loaded(rd) ==
    {o \in 0..(2 * SizeMax) : \E i \in 1..Len(rd.ranges) : Covers(rd.ranges[i], o)}

\* C21 (as claimed): after a successful load of buf at p the loaded offsets
\* are the former ones and [p, p + len), one range covers [p, p + len) and
\* every former range that overlapped or touched it, and every offset
\* outside [p, p + len) reads as it did before.
C21_LoadAbsorbsNeighbours ==
    \A p \in AllLoadPos, buf \in AllPayloads :
        (WasLoad(p, buf) /\ ret = 0) =>
            /\ Loaded(reader) = Loaded(old) \cup (p..(p + Len(buf) - 1))
            /\ \E i \in 1..Len(reader.ranges) :
                  /\ Inside(Range(p, Len(buf), buf), reader.ranges[i])
                  /\ \A k \in 1..Len(old.ranges) :
                        ~Apart(p, Len(buf), old.ranges[k]) =>
                            Inside(old.ranges[k], reader.ranges[i])
            /\ \A o \in Offsets(reader) :
                  (o < p \/ o >= p + Len(buf)) => ByteRead(reader, o) = ByteRead(old, o)

\* C22 (as claimed): removing [start, end] from strictly inside a range
\* [s, e] of the list puts [s, start - 1] and, right behind it, [end + 1, e]
\* in its place, each with the bytes the range held for its offsets, and
\* leaves every other range as it was.
C22_InteriorRemoveSplits ==
    \A a \in AllRemoveArgs :
        (WasRemove(a[1], a[2]) /\ ret = 0) =>
            \A i \in 1..Len(old.ranges) :
                LET r == old.ranges[i]
                    s == r.pos
                    e == r.pos + r.size - 1
                IN  (s < a[1] /\ a[2] < e) =>
                        reader.ranges =
                            SubSeq(old.ranges, 1, i - 1)
                            \o <<Range(s, a[1] - s, SubSeq(r.data, 1, a[1] - s)),
                                 Range(a[2] + 1, e - a[2],
                                       SubSeq(r.data, a[2] + 2 - s, r.size))>>
                            \o SubSeq(old.ranges, i + 1, Len(old.ranges))

\* C23 (as claimed): a seek relative to the cursor whose true sum
\* cursor + offset exceeds the size fails and leaves the cursor where it
\* was, also when the sum does not fit the machine word.
C23_CurSeekNeverWraps ==
    \A a \in AllSeekArgs :
        (/\ a[2] = SB_CUR
         /\ WasSeek(a[1], SB_CUR)
         /\ old.pos + a[1] > old.size) =>
            ret < 0 /\ reader.pos = old.pos

\* C24 (as claimed): no call on a reader that has not been freed uses a
\* range record or a payload after it released it, also when an earlier
\* call ran out of memory.  (ub records
\* that sb_load_range released mrange through range_remove() and then read
\* it again.)
C24_NoUseAfterRelease == reader # NULL => ~ub

\* C25 (as claimed): from any reachable state of a live reader, a successful
\* sb_remove_range(start, end) followed by a successful sb_load_range of
\* end - start + 1 bytes at start makes the offsets of [start, end] read
\* those bytes and leaves every other offset reading what it read before
\* the two calls.
C25_RemoveThenLoad ==
    \A a \in AllRemoveArgs :
        \A buf \in [1..(a[2] - a[1] + 1) -> Bytes] :
            LET rm == sb_remove_range(reader, a[1], a[2])
                ld == sb_load_range(rm.reader, a[1], buf)
            IN  (~ub /\ reader # NULL /\ rm.ret = 0 /\ ld.ret = 0) =>
                    \A o \in Offsets(reader) :
                        ByteRead(ld.reader, o) =
                            IF a[1] <= o /\ o <= a[2]
                            THEN buf[o - a[1] + 1]
                            ELSE ByteRead(reader, o)

====
